---------------------------- MODULE Spec2Model ----------------------------
(***************************************************************************)
(* Model of src/db_connector.py (class Parking) and of the caller's        *)
(* session.add / session.commit in src/test.py.                            *)
(*                                                                         *)
(* A timestamp string "DD-MM-YYYY HH:MM:SS" is the record of the numbers   *)
(* in its six digit fields.  An optional argument (Python None or a        *)
(* value) is the empty tuple or a one-element tuple.  Money is in cents.   *)
(* The wall clock counts half seconds, so that strftime's dropping of the  *)
(* sub-second part is visible.                                             *)
(***************************************************************************)
EXTENDS Integers, Sequences, FiniteSets

\* ------------------------------------------------------------- bounds
\* Number of primary keys the table can hand out.
MaxId == 1
\* Number of times the wall clock is seen to advance.
MaxTick == 1
\* Store connections that may stay checked out of the engine's pool.
MaxCheckedOut == 1

\* Largest factor the hourly rate is multiplied by.
MaxFactor == 3

\* -------------------------------------------------- program constants
\* hourly_rate: float = 10.0, in cents per hour.
DefaultHourlyRate == 1000
\* "/ 3600": seconds per hour.
SecondsPerHour == 3600

None == << >>
Some(v) == << v >>
IsNone(o) == o = << >>
Val(o) == o[1]

\* ------------------------------------------------ datetime arithmetic
TS(d, mo, y, h, mi, s) == [d |-> d, mo |-> mo, y |-> y, h |-> h, mi |-> mi, s |-> s]

IsLeap(y) == (y % 4 = 0 /\ y % 100 # 0) \/ y % 400 = 0

DaysInMonth(y, mo) ==
  IF mo \in {4, 6, 9, 11} THEN 30
  ELSE IF mo = 2 THEN (IF IsLeap(y) THEN 29 ELSE 28)
  ELSE 31

RECURSIVE DaysBeforeMonth(_, _)
DaysBeforeMonth(y, mo) ==
  IF mo <= 1 THEN 0 ELSE DaysBeforeMonth(y, mo - 1) + DaysInMonth(y, mo - 1)

\* Days before 1 January of year y (proleptic Gregorian ordinal).
DaysBeforeYear(y) ==
  (y - 1) * 365 + ((y - 1) \div 4) - ((y - 1) \div 100) + ((y - 1) \div 400)

Ordinal(t) == DaysBeforeYear(t.y) + DaysBeforeMonth(t.y, t.mo) + t.d

SecondOfDay(t) == t.h * 3600 + t.mi * 60 + t.s

\* datetime.datetime.strptime(s, "%d-%m-%Y %H:%M:%S") succeeds on s.
WellFormed(t) ==
  /\ t.y \in 1..9999
  /\ t.mo \in 1..12
  /\ t.d \in 1..DaysInMonth(t.y, t.mo)
  /\ t.h \in 0..23
  /\ t.mi \in 0..59
  /\ t.s \in 0..59

\* datetime.timedelta.total_seconds(exit_time - entry_time)
TotalSeconds(exit_time, entry_time) ==
  (Ordinal(exit_time) - Ordinal(entry_time)) * 86400
    + (SecondOfDay(exit_time) - SecondOfDay(entry_time))

\* The date d days after the date of t (time of day kept).
RECURSIVE AddDays(_, _)
AddDays(t, d) ==
  IF d = 0 THEN t
  ELSE IF t.d < DaysInMonth(t.y, t.mo) THEN AddDays([t EXCEPT !.d = @ + 1], d - 1)
  ELSE IF t.mo < 12 THEN AddDays([t EXCEPT !.d = 1, !.mo = @ + 1], d - 1)
  ELSE AddDays([t EXCEPT !.d = 1, !.mo = 1, !.y = @ + 1], d - 1)

\* ------------------------------------------------------ the wall clock
\* Midnight of the day the clock starts in.
ClockDay == TS(29, 2, 2024, 0, 0, 0)

\* Half seconds the clock advances at its i-th tick: nine and a half seconds
\* (over midnight of the leap day), thirty minutes, half a second, in turn.
TickStep(i) == IF i % 3 = 1 THEN 19 ELSE IF i % 3 = 2 THEN 3600 ELSE 1

RECURSIVE ClockAt(_)
\* Half seconds since ClockDay after i ticks; the clock starts at 23:59:51.
ClockAt(i) == IF i = 0 THEN 2 * 86391 ELSE ClockAt(i - 1) + TickStep(i)

\* Faulty variant of strftime: the date does not roll over at midnight.
strftime_same_day(c) ==
  LET sod == (c \div 2) % 86400
  IN  TS(ClockDay.d, ClockDay.mo, ClockDay.y,
         sod \div 3600, (sod % 3600) \div 60, sod % 60)

\* datetime.datetime.now().strftime("%d-%m-%Y %H:%M:%S") at clock reading c.
strftime(c) ==
  LET secs == c \div 2
      day  == AddDays(ClockDay, secs \div 86400)
      sod  == secs % 86400
  IN  TS(day.d, day.mo, day.y, sod \div 3600, (sod % 3600) \div 60, sod % 60)

\* Whole seconds from ClockDay to the well-formed timestamp t.
SecondsSinceClockDay(t) == TotalSeconds(t, ClockDay)

\* ---------------------------------------------------------------- fee
\* round(num / den, 0) for den > 0.  Python rounds the binary double, so an
\* exact half goes to whichever neighbour the representation error of the
\* double favours: half = 1 is up, half = 0 is down.
Round(num, den, half) ==
  LET q == num \div den
      r == num - q * den
  IN  IF 2 * r < den THEN q
      ELSE IF 2 * r > den THEN q + 1
      ELSE q + half

\* Faulty variant of calculate_fee: entry_time - exit_time.
calculate_fee_reversed(entry_time, exit_time, hourly_rate, half) ==
  IF ~ (WellFormed(entry_time) /\ WellFormed(exit_time))
  THEN [raised |-> TRUE, fee |-> 0]
  ELSE [raised |-> FALSE,
        fee |-> Round(TotalSeconds(entry_time, exit_time) * hourly_rate,
                      SecondsPerHour, half)]

\* Parking.calculate_fee: raised is TRUE when strptime rejects a timestamp
\* (ValueError), and otherwise fee is the result in cents.
calculate_fee(entry_time, exit_time, hourly_rate, half) ==
  IF ~ (WellFormed(entry_time) /\ WellFormed(exit_time))
  THEN [raised |-> TRUE, fee |-> 0]
  ELSE [raised |-> FALSE,
        fee |-> Round(TotalSeconds(exit_time, entry_time) * hourly_rate,
                      SecondsPerHour, half)]

\* -------------------------------------------------------------- inputs
Ids == 1..MaxId
EarlyTime == TS(29, 2, 2024, 22, 0, 0)
LateTime == TS(1, 3, 2024, 0, 30, 0)
\* 31 February: matches the pattern, and strptime rejects it.
BadTime == TS(31, 2, 2024, 10, 0, 0)
LotNumbers == {1}
PlateNumbers == {"34ABC123"}
CreateEntryTimes == {None, Some(LateTime)}
CreateExitTimes == {None, Some(LateTime)}
CreateFees == {None, Some(500)}
ModifyLots == {None, Some(7)}
ModifyPlates == {None, Some("06XYZ789")}
ModifyEntryTimes == {None, Some(BadTime)}
ModifyExitTimes == {None, Some(EarlyTime)}
ModifyFees == {None, Some(0)}
CheckoutExitTimes == {None, Some(LateTime), Some(BadTime)}
CheckoutFees == {None, Some(0)}
Answers == {"yes", "YES", "no"}
\* How the store fails during an operation: not at all, before a connection
\* is checked out, while a statement runs, or at commit.
ReadFaults == {"none", "connect", "execute"}
WriteFaults == ReadFaults \cup {"commit"}

\* str.lower() on the answers.
lower(s) == IF s = "YES" THEN "yes" ELSE s

\* ---------------------------------------------------------------- state
VARIABLES
  store,   \* the table: primary key -> row, for the rows that exist
  tick,    \* how often the wall clock has advanced
  pool,    \* connections checked out of the engine's pool and not returned
  ret,     \* the last call: operation, arguments, outcome, returned object
  calc     \* calculate_fee applied to drawn inputs (SpecFee)

vars == << store, tick, pool, ret, calc >>

\* datetime.datetime.now(), in half seconds since ClockDay.
now == ClockAt(tick)

Row(o) == [lot_number |-> o.lot_number, plate_number |-> o.plate_number,
           entry_time |-> o.entry_time, exit_time |-> o.exit_time, fee |-> o.fee]

\* The mapped object of row r with primary key id (None: not yet assigned).
Object(id, r) == [id |-> id, lot_number |-> r.lot_number,
                  plate_number |-> r.plate_number, entry_time |-> r.entry_time,
                  exit_time |-> r.exit_time, fee |-> r.fee]

\* What a call did: how it ended ("return", or the exception it raised),
\* the object it returned (None: none), whether it printed a message, the
\* connections it left checked out, and the rows of the table after it.
Result(outcome, val, printed, leaked, rows) ==
  [outcome |-> outcome, val |-> val, printed |-> printed, leaked |-> leaked,
   rows |-> rows]

\* Connections a failing statement leaves checked out: the statement failed
\* in a session that held a connection, and session.close() is not reached.
Leak(fault) == IF fault = "execute" THEN 1 ELSE 0

\* Parking.get: the detached object, or None when no row has the key.
get(id, fault) ==
  IF fault \in {"connect", "execute"}
  THEN Result("StoreError", None, FALSE, Leak(fault), store)
  ELSE Result("return",
              IF id \in DOMAIN store THEN Some(Object(Some(id), store[id])) ELSE None,
              FALSE, 0, store)

\* Parking.create
create(lot_number, plate_number, entry_time, exit_time, fee) ==
  Result("return",
         Some([id |-> None, lot_number |-> lot_number, plate_number |-> plate_number,
               entry_time |-> IF IsNone(entry_time) THEN strftime(now)
                              ELSE Val(entry_time),
               exit_time |-> exit_time, fee |-> fee]),
         FALSE, 0, store)

\* Faulty variant of modify_fields: "if fee:" for "if fee is not None:".
modify_fields_truthy(entry, a) ==
  [id |-> entry.id,
   lot_number |-> IF IsNone(a.lot_number) THEN entry.lot_number ELSE Val(a.lot_number),
   plate_number |-> IF IsNone(a.plate_number) THEN entry.plate_number
                    ELSE Val(a.plate_number),
   entry_time |-> IF IsNone(a.entry_time) THEN entry.entry_time ELSE Val(a.entry_time),
   exit_time |-> IF IsNone(a.exit_time) THEN entry.exit_time ELSE a.exit_time,
   fee |-> IF IsNone(a.fee) \/ a.fee = Some(0) THEN entry.fee ELSE a.fee]

\* Parking.modify, lines 124-139: each supplied argument overwrites its
\* attribute of the detached object.
modify_fields(entry, a) ==
  [id |-> entry.id,
   lot_number |-> IF IsNone(a.lot_number) THEN entry.lot_number ELSE Val(a.lot_number),
   plate_number |-> IF IsNone(a.plate_number) THEN entry.plate_number
                    ELSE Val(a.plate_number),
   entry_time |-> IF IsNone(a.entry_time) THEN entry.entry_time ELSE Val(a.entry_time),
   exit_time |-> IF IsNone(a.exit_time) THEN entry.exit_time ELSE a.exit_time,
   fee |-> IF IsNone(a.fee) THEN entry.fee ELSE a.fee]

\* Faulty variant of modify: a missing row gives None instead of the error.
modify_none_for_missing(id, a, fault) ==
  LET g == get(id, fault) IN
  IF g.outcome # "return" THEN g
  ELSE IF IsNone(g.val) THEN Result("return", None, FALSE, 0, store)
  ELSE Result("return", Some(modify_fields(Val(g.val), a)), FALSE, 0, store)

\* Parking.modify
modify(id, a, fault) ==
  LET g == get(id, fault) IN
  IF g.outcome # "return" THEN g
  ELSE IF IsNone(g.val) THEN Result("NotFound", None, FALSE, 0, store)
  ELSE Result("return", Some(modify_fields(Val(g.val), a)), FALSE, 0, store)

\* The exit time Parking.checkout uses.
checkout_exit_time(exit_time) ==
  IF IsNone(exit_time) THEN strftime(now) ELSE Val(exit_time)

\* Faulty variant of checkout_fee: "if not fee:" for "if fee is None:".
checkout_fee_truthy(entry, exit_time, fee, half) ==
  IF IsNone(fee) \/ fee = Some(0)
  THEN calculate_fee(entry.entry_time, exit_time, DefaultHourlyRate, half)
  ELSE [raised |-> FALSE, fee |-> Val(fee)]

\* The fee Parking.checkout uses; raised when calculate_fee raises.
checkout_fee(entry, exit_time, fee, half) ==
  IF IsNone(fee)
  THEN calculate_fee(entry.entry_time, exit_time, DefaultHourlyRate, half)
  ELSE [raised |-> FALSE, fee |-> Val(fee)]

\* Faulty variant of checkout: entry.fee is not assigned.
checkout_exit_only(id, exit_time, fee, half, fault) ==
  LET g == get(id, fault) IN
  IF g.outcome # "return" THEN g
  ELSE IF IsNone(g.val) THEN Result("NotFound", None, FALSE, 0, store)
  ELSE LET x == checkout_exit_time(exit_time)
           f == checkout_fee(Val(g.val), x, fee, half)
       IN  IF f.raised THEN Result("FormatError", None, FALSE, 0, store)
           ELSE Result("return", Some([Val(g.val) EXCEPT !.exit_time = Some(x)]),
                       FALSE, 0, store)

\* Faulty variant of checkout: the object is changed in an open session and
\* committed, so the row changes with it.
checkout_writes_back(id, exit_time, fee, half, fault) ==
  LET g == get(id, fault) IN
  IF g.outcome # "return" THEN g
  ELSE IF IsNone(g.val) THEN Result("NotFound", None, FALSE, 0, store)
  ELSE LET x == checkout_exit_time(exit_time)
           f == checkout_fee(Val(g.val), x, fee, half)
           o == [Val(g.val) EXCEPT !.exit_time = Some(x), !.fee = Some(f.fee)]
       IN  IF f.raised THEN Result("FormatError", None, FALSE, 0, store)
           ELSE Result("return", Some(o), FALSE, 0, [store EXCEPT ![id] = Row(o)])

\* Parking.checkout
checkout(id, exit_time, fee, half, fault) ==
  LET g == get(id, fault) IN
  IF g.outcome # "return" THEN g
  ELSE IF IsNone(g.val) THEN Result("NotFound", None, FALSE, 0, store)
  ELSE LET x == checkout_exit_time(exit_time)
           f == checkout_fee(Val(g.val), x, fee, half)
       IN  IF f.raised THEN Result("FormatError", None, FALSE, 0, store)
           ELSE Result("return",
                       Some([Val(g.val) EXCEPT !.exit_time = Some(x),
                                               !.fee = Some(f.fee)]),
                       FALSE, 0, store)

\* Faulty variant of delete_row: the commit is left out.
delete_row_not_committed(id) == store

\* The rows after session.delete(entry); session.commit().
delete_row(id) == [i \in DOMAIN store \ {id} |-> store[i]]

\* Faulty variant of delete: session.delete(None) is not caught.
delete_uncaught(id, fault) ==
  LET g == get(id, fault) IN
  IF g.outcome = "return" /\ ~ IsNone(g.val) /\ fault # "commit"
  THEN Result("return", None, FALSE, 0, delete_row(id))
  ELSE IF g.outcome = "return" /\ IsNone(g.val)
  THEN Result("UnmappedInstanceError", None, FALSE, 0, store)
  ELSE Result("return", None, TRUE, g.leaked, store)

\* Parking.delete: whatever the try block raises (the lookup failing,
\* session.delete(None), the commit failing) is caught and printed, and the
\* session of delete itself is closed in the finally clause.
delete(id, fault) ==
  LET g == get(id, fault) IN
  IF g.outcome = "return" /\ ~ IsNone(g.val) /\ fault # "commit"
  THEN Result("return", None, FALSE, 0, delete_row(id))
  ELSE Result("return", None, TRUE, g.leaked, store)

\* Parking._wipe: no try/finally, so session.close() is not reached when the
\* DELETE or the commit raises.
wipe(answer, fault) ==
  IF lower(answer) # "yes" THEN Result("return", None, TRUE, 0, store)
  ELSE IF fault = "none" THEN Result("return", None, FALSE, 0, << >>)
  ELSE Result("StoreError", None, FALSE,
              IF fault \in {"execute", "commit"} THEN 1 ELSE 0, store)

\* The primary key SQLite gives the next inserted row.
NextId == IF DOMAIN store = {} THEN 1
          ELSE (CHOOSE i \in DOMAIN store : \A j \in DOMAIN store : j <= i) + 1

\* session.add(new_entry); session.commit(); session.close() of the caller.
add_commit(entry) ==
  Result("return", Some([entry EXCEPT !.id = Some(NextId)]), FALSE, 0,
         [i \in DOMAIN store \cup {NextId} |->
            IF i = NextId THEN Row(entry) ELSE store[i]])

NoArgs == [none |-> TRUE]

Call(op, id, args, r) ==
  [op |-> op, id |-> id, args |-> args, outcome |-> r.outcome, val |-> r.val,
   printed |-> r.printed]

IdleCalc == [state |-> "idle"]

Init ==
  /\ store = << >>
  /\ tick = 0
  /\ pool = 0
  /\ ret = Call("start", None, NoArgs, Result("return", None, FALSE, 0, << >>))
  /\ calc = IdleCalc

\* ------------------------------------------------------------- actions
\* A call with result r: the pool keeps what the call left checked out.
Returns(op, id, args, r) ==
  /\ pool + r.leaked <= MaxCheckedOut
  /\ pool' = pool + r.leaked
  /\ store' = r.rows
  /\ ret' = Call(op, id, args, r)
  /\ UNCHANGED << tick, calc >>

Tick ==
  /\ tick < MaxTick
  /\ tick' = tick + 1
  /\ UNCHANGED << store, pool, ret, calc >>

Get(id, fault) == Returns("get", Some(id), NoArgs, get(id, fault))

Create(lot_number, plate_number, entry_time, exit_time, fee) ==
  Returns("create", None,
          [lot_number |-> lot_number, plate_number |-> plate_number,
           entry_time |-> entry_time, exit_time |-> exit_time, fee |-> fee],
          create(lot_number, plate_number, entry_time, exit_time, fee))

AddCommit ==
  /\ ret.op = "create"
  /\ NextId \in Ids
  /\ Returns("add_commit", Some(NextId), NoArgs, add_commit(Val(ret.val)))

Modify(id, a, fault) == Returns("modify", Some(id), a, modify(id, a, fault))

Checkout(id, exit_time, fee, half, fault) ==
  Returns("checkout", Some(id), [exit_time |-> exit_time, fee |-> fee],
          checkout(id, exit_time, fee, half, fault))

Delete(id, fault) == Returns("delete", Some(id), NoArgs, delete(id, fault))

Wipe(answer, fault) ==
  Returns("_wipe", None, [answer |-> answer], wipe(answer, fault))

ModifyArgs ==
  [lot_number : ModifyLots, plate_number : ModifyPlates, entry_time : ModifyEntryTimes,
   exit_time : ModifyExitTimes, fee : ModifyFees]

Calls(readFaults, writeFaults) ==
  \/ \E id \in Ids, f \in readFaults : Get(id, f)
  \/ \E l \in LotNumbers, p \in PlateNumbers, e \in CreateEntryTimes,
        x \in CreateExitTimes, f \in CreateFees : Create(l, p, e, x, f)
  \/ AddCommit
  \/ \E id \in Ids, a \in ModifyArgs, f \in readFaults : Modify(id, a, f)
  \/ \E id \in Ids, x \in CheckoutExitTimes, fee \in CheckoutFees, half \in {0, 1},
        f \in readFaults : Checkout(id, x, fee, half, f)
  \/ \E id \in Ids, f \in writeFaults : Delete(id, f)
  \/ \E answer \in Answers, f \in writeFaults : Wipe(answer, f)

\* The store never fails.
Next == Tick \/ Calls({"none"}, {"none"})

Spec == Init /\ [][Next]_vars

\* The store may fail.
NextFault == Tick \/ Calls(ReadFaults, WriteFaults)

SpecFault == Init /\ [][NextFault]_vars

\* ------------------------------------------- calculate_fee on its own
FeeTimes == {EarlyTime, TS(29, 2, 2024, 22, 0, 1), TS(29, 2, 2024, 22, 0, 9),
             TS(29, 2, 2024, 23, 59, 51), LateTime}
\* Hourly rates in cents.
HourlyRates == {0, 250, DefaultHourlyRate}
Factors == 1..MaxFactor

InitFee ==
  /\ store = << >>
  /\ tick = 0
  /\ pool = 0
  /\ ret = Call("start", None, NoArgs, Result("return", None, FALSE, 0, << >>))
  /\ calc \in [state : {"drawn"}, e1 : FeeTimes, x1 : FeeTimes, e2 : FeeTimes,
               x2 : FeeTimes, rate : HourlyRates, k : Factors]

\* calculate_fee(e1, x1, rate), calculate_fee(e2, x2, rate) and
\* calculate_fee(e1, x1, k * rate); equal arguments give equal results.
ApplyFee ==
  /\ calc.state = "drawn"
  /\ \E h1 \in {0, 1}, h2 \in {0, 1}, hk \in {0, 1} :
       /\ (calc.e1 = calc.e2 /\ calc.x1 = calc.x2) => h1 = h2
       /\ calc.k = 1 => h1 = hk
       /\ calc' = [state |-> "applied", e1 |-> calc.e1, x1 |-> calc.x1,
                   e2 |-> calc.e2, x2 |-> calc.x2, rate |-> calc.rate, k |-> calc.k,
                   fee1 |-> calculate_fee(calc.e1, calc.x1, calc.rate, h1).fee,
                   fee2 |-> calculate_fee(calc.e2, calc.x2, calc.rate, h2).fee,
                   feeK |-> calculate_fee(calc.e1, calc.x1, calc.k * calc.rate, hk).fee]
  /\ UNCHANGED << store, tick, pool, ret >>

NextFee == ApplyFee

SpecFee == InitFee /\ [][NextFee]_vars

\* ============================================================== claims
\* Get(id) returns absent.
Absent(id) == IsNone(get(id, "none").val)
\* This step is a call of operation op (the clock does not advance in a call).
Called(op) == tick' = tick /\ ret'.op = op
Abs(n) == IF n < 0 THEN 0 - n ELSE n

C2_DeleteMissingIsCaught ==
  [][\A id \in Ids :
       (Absent(id) /\ Called("delete") /\ ret'.id = Some(id))
         => /\ ret'.outcome = "return"
            /\ ret'.printed
            /\ store' = store]_vars

\* Delete was called with an id that resolved to no row.
C2_Witness ==
  /\ ret.op = "delete" /\ ret.outcome = "return" /\ ret.printed
  /\ Absent(Val(ret.id))

\* C3: Modify and Checkout of an id that resolves to no row raise the
\* not-found error, return no record, and create or change no row.
C3_MissingIdRaisesNotFound ==
  [][\A id \in Ids :
       (Absent(id) /\ (Called("modify") \/ Called("checkout")) /\ ret'.id = Some(id))
         => /\ ret'.outcome = "NotFound"
            /\ IsNone(ret'.val)
            /\ store' = store]_vars

\* Modify raised not-found for an id that resolves to no row.
C3_Witness ==
  /\ ret.op = "modify" /\ ret.outcome = "NotFound"
  /\ Absent(Val(ret.id))

\* C4: the record a successful Checkout of an existing id returns has
\* exit_time and fee present; with fee omitted the fee is calculate_fee of the
\* fetched row's entry_time and the exit_time set, at the default rate (an
\* exact half rounded either way); with fee supplied it is the supplied value.
C4_CheckoutCloses ==
  [][\A id \in Ids :
       (/\ ~ Absent(id)
        /\ Called("checkout") /\ ret'.id = Some(id) /\ ret'.outcome = "return")
         => LET r == Val(ret'.val)
                f == ret'.args.fee
            IN  /\ ~ IsNone(r.exit_time)
                /\ ~ IsNone(r.fee)
                /\ IsNone(f)
                     => \E half \in {0, 1} :
                          LET c == calculate_fee(store[id].entry_time,
                                                 Val(r.exit_time),
                                                 DefaultHourlyRate, half)
                          IN  ~ c.raised /\ Val(r.fee) = c.fee
                /\ ~ IsNone(f) => r.fee = f]_vars

\* Checkout with exit_time and fee omitted returned a record with a computed,
\* non-zero fee.
C4_Witness ==
  /\ ret.op = "checkout" /\ ret.outcome = "return"
  /\ IsNone(ret.args.fee) /\ IsNone(ret.args.exit_time)
  /\ Val(Val(ret.val).fee) # 0

\* Checkout(id) with exit_time omitted returns from an open session with a
\* well-formed entry_time.
OpenCheckoutNow(id) ==
  /\ ~ Absent(id)
  /\ IsNone(store[id].exit_time)
  /\ WellFormed(store[id].entry_time)
  /\ Called("checkout") /\ ret'.id = Some(id)
  /\ IsNone(ret'.args.exit_time)
  /\ ret'.outcome = "return"

\* C5 as claimed: Checkout of an open session with exit_time omitted sets an
\* exit_time that is not before the session's entry_time.
C5_ExitNotBeforeEntry ==
  [][\A id \in Ids :
       OpenCheckoutNow(id)
         => TotalSeconds(Val(Val(ret'.val).exit_time), store[id].entry_time) >= 0]_vars

\* C5 as amended: Checkout of an open session with exit_time omitted sets
\* exit_time to the wall clock's time cut to the second, which is not before
\* the session's entry_time exactly when that entry_time is not later than
\* the wall clock.
C5_ExitIsNow ==
  [][\A id \in Ids :
       OpenCheckoutNow(id)
         => LET x == Val(Val(ret'.val).exit_time)
                e == store[id].entry_time
            IN  /\ WellFormed(x)
                /\ now - 2 * SecondsSinceClockDay(x) \in {0, 1}
                /\ TotalSeconds(x, e) >= 0 <=> 2 * SecondsSinceClockDay(e) <= now]_vars

\* Checkout with exit_time omitted closed, after midnight, a session that was
\* entered before midnight.
C5_Witness ==
  /\ ret.op = "checkout" /\ ret.outcome = "return" /\ IsNone(ret.args.exit_time)
  /\ tick >= 1
  /\ Val(ret.val).entry_time.d = 29
  /\ TotalSeconds(Val(Val(ret.val).exit_time), Val(ret.val).entry_time) > 0

FeeIffExit(r) == IsNone(r.fee) <=> IsNone(r.exit_time)

\* C6 as claimed: every record, returned by Create, Modify or Checkout or
\* stored, has fee present iff exit_time is present.
C6_FeeIffExitTime ==
  /\ (ret.op \in {"create", "modify", "checkout"} /\ ~ IsNone(ret.val))
       => FeeIffExit(Val(ret.val))
  /\ \A id \in DOMAIN store : FeeIffExit(store[id])

\* C6 as amended: a record Checkout returns has fee and exit_time both
\* present; a record returned by Create, or by Modify of an open session, has
\* fee present iff exit_time present exactly when both or neither of the two
\* were supplied; Modify of a closed session returns a closed record.
C6_FeeIffExitTimeWhenSetTogether ==
  [][/\ (Called("checkout") /\ ret'.outcome = "return")
          => (~ IsNone(Val(ret'.val).fee) /\ ~ IsNone(Val(ret'.val).exit_time))
     /\ Called("create")
          => (FeeIffExit(Val(ret'.val))
                <=> (IsNone(ret'.args.fee) <=> IsNone(ret'.args.exit_time)))
     /\ \A id \in Ids :
          (~ Absent(id) /\ Called("modify") /\ ret'.id = Some(id)
             /\ ret'.outcome = "return")
            => /\ (IsNone(store[id].fee) /\ IsNone(store[id].exit_time))
                    => (FeeIffExit(Val(ret'.val))
                          <=> (IsNone(ret'.args.fee) <=> IsNone(ret'.args.exit_time)))
               /\ (~ IsNone(store[id].fee) /\ ~ IsNone(store[id].exit_time))
                    => (~ IsNone(Val(ret'.val).fee)
                          /\ ~ IsNone(Val(ret'.val).exit_time))
    ]_vars

\* Checkout returned the closed record of a session that is open in the store.
C6_Witness ==
  /\ ret.op = "checkout" /\ ret.outcome = "return"
  /\ Val(ret.id) \in DOMAIN store
  /\ IsNone(store[Val(ret.id)].exit_time) /\ IsNone(store[Val(ret.id)].fee)
  /\ ~ IsNone(Val(ret.val).exit_time) /\ ~ IsNone(Val(ret.val).fee)

C8_ConnectionsReleased == pool = 0

\* C9 as claimed: for exit_time >= entry_time, calculate_fee is monotonically
\* non-decreasing in the elapsed duration, and calculate_fee(e, x, k * r) is
\* k * calculate_fee(e, x, r) (for some way the exact halves round).
C9_MonotoneAndLinear ==
  calc.state = "applied"
    => LET d1 == TotalSeconds(calc.x1, calc.e1)
           d2 == TotalSeconds(calc.x2, calc.e2)
       IN  /\ (0 <= d1 /\ d1 <= d2) => calc.fee1 <= calc.fee2
           /\ 0 <= d1
                => \E h1 \in {0, 1}, hk \in {0, 1} :
                     /\ calc.k = 1 => h1 = hk
                     /\ calculate_fee(calc.e1, calc.x1, calc.k * calc.rate, hk).fee
                          = calc.k * calculate_fee(calc.e1, calc.x1, calc.rate, h1).fee

\* C9 as amended: for exit_time >= entry_time and a rate >= 0, calculate_fee is
\* monotonically non-decreasing in the elapsed duration, and
\* calculate_fee(e, x, k * r) differs from k * calculate_fee(e, x, r) by at
\* most (k + 1) / 2 cents.
C9_MonotoneAndLinearUpToRounding ==
  calc.state = "applied"
    => LET d1 == TotalSeconds(calc.x1, calc.e1)
           d2 == TotalSeconds(calc.x2, calc.e2)
       IN  /\ (0 <= d1 /\ d1 <= d2) => calc.fee1 <= calc.fee2
           /\ 0 <= d1 => 2 * Abs(calc.feeK - calc.k * calc.fee1) <= calc.k + 1

\* calculate_fee gave a larger fee for a longer stay, and a fee at k times the
\* rate that is not k times the fee.
C9_Witness ==
  /\ calc.state = "applied"
  /\ 0 < TotalSeconds(calc.x1, calc.e1)
  /\ TotalSeconds(calc.x1, calc.e1) < TotalSeconds(calc.x2, calc.e2)
  /\ calc.fee1 < calc.fee2
  /\ calc.k >= 2
  /\ calc.feeK # calc.k * calc.fee1

\* C10: Modify and Checkout leave every row as it was: Get of every id
\* returns after the call what it returned before it.
C10_CopiesAreDetached ==
  [][(Called("modify") \/ Called("checkout"))
       => /\ store' = store
          /\ \A j \in Ids : get(j, "none")' = get(j, "none")]_vars

\* Modify returned a record that differs from the row Get still returns.
C10_Witness ==
  /\ ret.op = "modify" /\ ret.outcome = "return"
  /\ get(Val(ret.id), "none").val # ret.val
  /\ ~ Absent(Val(ret.id))

=============================================================================
